---- MODULE Spec2Model ----
(***************************************************************************)
(* Simulation engine of the UAV mission planner (src/map_app.ts, class     *)
(* MapApp, section "SIMULATION MODE METHODS").                             *)
(*                                                                         *)
(* Numbers.  The program computes with IEEE doubles; the model computes    *)
(* with exact integers in fixed units, chosen so that every division the   *)
(* code performs on the modelled inputs is exact:                          *)
(*   speedMultiplier          tenths            (0.1 -> 1, 10.0 -> 100)    *)
(*   waypoint speed           m/s                                          *)
(*   distances                step units: the distance flown in one frame  *)
(*                            (deltaTime) at 1 m/s and multiplier 0.1      *)
(*   lat, lng of a waypoint   coordinate units on the equator (lat = 0),   *)
(*                            where the haversine distance is              *)
(*                            R * |dLng|, i.e. DistPerCoord per unit       *)
(*   progress                 1/PScale                                     *)
(*   telemetry lat/lng/alt    coordinate units (metres) times PScale       *)
(*   battery                  1/BatteryScale percent                       *)
(*   times                    seconds; derived times are exact fractions   *)
(* Division by zero yields Infinity or NaN as in the code.                 *)
(***************************************************************************)
EXTENDS Integers, Sequences, FiniteSets, TLC

VARIABLES
  waypoints,                \* this.waypoints: Map values in insertion order
  missionWeather,           \* this.missionWeather: NoWeather or [wind: ...]
  simulationState,          \* this.simulationState
  droneTelemetry,           \* this.droneTelemetry
  droneTrail,               \* this.droneTrail: [positions, maxLength]
  weatherEffect,            \* this.weatherEffect
  simulationAnimationId,    \* handle of the last requested frame, 0 = undefined
  telemetryUpdateInterval,  \* handle of the interval timer, 0 = undefined
  frameQueue,               \* host: handles of queued animate callbacks, FIFO
  intervalTimers,           \* host: handles of the live interval timers
  now,                      \* host: Date.now(), in seconds
  lastAlert,                \* host: alert() of the handler that ran last
  missionCompleteAlerts,    \* host: 'Mission completed!' alerts since the last start
  trailLog,                 \* observer: positions pushed since the trail was last
                            \* emptied, and whether maxLength has been the same since
  segmentLog,               \* observer: frames that advanced progress on the current
                            \* segment, and whether all had the same distanceStep
  frameTurn                 \* host: 0 or 1, flipped by the frame deliveries that the
                            \* fairness condition of SpecFlight speaks of

vars == <<waypoints, missionWeather, simulationState, droneTelemetry, droneTrail,
          weatherEffect, simulationAnimationId, telemetryUpdateInterval,
          frameQueue, intervalTimers, now, lastAlert, missionCompleteAlerts,
          trailLog, segmentLog, frameTurn>>

-----------------------------------------------------------------------------
(* Bounds of the model *)

MaxWaypoints == 3      \* waypoints the planner holds at most
MaxNow == 1            \* the wall clock runs from 0 to MaxNow
MaxQueued == 2         \* start and resume are explored while fewer callbacks are queued
MaxDrain == 1          \* single timer callbacks are explored until the battery
                       \* has lost MaxDrain units, and again once it is empty
BurstLen == 1000000    \* timer callbacks in a row while frames are suspended

(* Program constants *)

DEFAULT_ALTITUDE == 100          \* addWaypoint, metres
DEFAULT_SPEED == 15              \* addWaypoint, m/s
MIN_SPEED_MULTIPLIER == 1        \* 0.1, in tenths
MAX_SPEED_MULTIPLIER == 100      \* 10, in tenths
DEFAULT_SPEED_MULTIPLIER == 10   \* 1.0, in tenths
DEFAULT_TRAIL_LENGTH == 100
MIN_TRAIL_LENGTH == 10
MAX_TRAIL_LENGTH == 500
WIND_DANGER == 20
VISIBILITY_MIN == 1000
VISIBILITY_DEFAULT == 10000
DeltaTimeNum == 1667             \* deltaTime = 16.67 / 1000 seconds
DeltaTimeDen == 100000
TELEMETRY_UPDATE_RATE == 50      \* period of the interval timer in milliseconds
BatteryScale == 10000            \* battery unit: 0.0001 percent
BatteryFull == 100 * BatteryScale
BatteryDrainRate == 1            \* 0.001 percent per callback at multiplier 1.0,
                                 \* i.e. one battery unit per tenth of multiplier

\* step units per coordinate unit (R * pi / 180 in calculateDistance, scaled):
\* a coordinate unit takes two frames at the default speed and multiplier 0.1
DistPerCoord == 2 * DEFAULT_SPEED * MIN_SPEED_MULTIPLIER

\* this.missionWeather = null
NoWeather ==
  [present |-> FALSE, hasWind |-> FALSE, wind |-> [speed |-> 0, deg |-> 0],
   visibility |-> 0, rainOrSnow |-> FALSE]

\* a weather report as fetchMissionWeather stores it: wind 6 m/s from 0 degrees
WindyWeather ==
  [present |-> TRUE, hasWind |-> TRUE, wind |-> [speed |-> 6, deg |-> 0],
   visibility |-> 8000, rainOrSnow |-> TRUE]

-----------------------------------------------------------------------------
(* Arithmetic helpers *)

Range(seq) == {seq[i] : i \in 1..Len(seq)}

Abs(x) == IF x < 0 THEN -x ELSE x
Max(a, b) == IF a >= b THEN a ELSE b
Min(a, b) == IF a <= b THEN a ELSE b

RECURSIVE Gcd(_, _)
Gcd(a, b) == IF b = 0 THEN a ELSE Gcd(b, a % b)

\* progress is stored in units of 1/PScale; every segment length divides PScale
PScale == DistPerCoord

\* a / b on non-negative numbers as the code's doubles give it:
\* an exact fraction in lowest terms, Infinity for x/0 and NaN for 0/0
NaN == [num |-> 0, den |-> 0]
Infinity == [num |-> 1, den |-> 0]

\* NaN in a field the model holds as an integer (progress, a coordinate of
\* the telemetry, heading, distanceToWaypoint); every number of such a field
\* is 0 or more
NaNUnits == -1
Quot(a, b) ==
  IF b = 0 THEN (IF a = 0 THEN NaN ELSE Infinity)
  ELSE LET g == Gcd(a, b) IN [num |-> a \div g, den |-> b \div g]

\* Math.sqrt on the perfect squares the model produces
Sqrt(n) == CHOOSE r \in 0..n : r * r = n

-----------------------------------------------------------------------------
(* Waypoints *)

\* crypto.randomUUID(): sample identifiers, by their first characters, in the
\* order the generator hands them out
UuidStream == <<"a3f1", "7c9e", "3b7e">>

\* parseInt(id.replace('waypoint-', '')): the leading decimal digits of the
\* identifier, NaN when it starts with a letter
ParsesToNaN(id) == id = "a3f1"
parseInt(id) == IF id = "3b7e" THEN 3 ELSE 7

\* longitudes a map click lands on: waypoints coincide or lie one unit apart
Coords == {0, 1}

\* identifiers no waypoint of the mission carries
UnusedUuids(wps) == Range(UuidStream) \ {wps[i].id : i \in 1..Len(wps)}

\* the next identifier of the stream that is free
NextUuid(wps) ==
  UuidStream[CHOOSE k \in 1..Len(UuidStream) :
               /\ UuidStream[k] \in UnusedUuids(wps)
               /\ \A j \in 1..(k - 1) : UuidStream[j] \notin UnusedUuids(wps)]

\* addWaypoint's record; notes and color play no part in the simulation or in
\* the flight path. The label 'Home' is held as 1 and 'Waypoint n' as n, whose
\* order is that of localeCompare on the labels for n up to 9
NewWaypoint(id, lng, isHome, label) ==
  [id |-> id, lat |-> 0, lng |-> lng, altitude |-> DEFAULT_ALTITUDE,
   speed |-> DEFAULT_SPEED, label |-> label, isHome |-> isHome]

\* the comparator (a, b) => parseInt(a.id...) - parseInt(b.id...);
\* a NaN result is taken as +0 by Array.prototype.sort
CompareIds(a, b) ==
  IF ParsesToNaN(a.id) \/ ParsesToNaN(b.id) THEN 0 ELSE parseInt(a.id) - parseInt(b.id)

\* Array.prototype.sort is stable: x goes behind every element not greater than it
RECURSIVE InsertSorted(_, _)
InsertSorted(sorted, x) ==
  IF sorted = <<>> THEN <<x>>
  ELSE IF CompareIds(sorted[Len(sorted)], x) > 0
       THEN Append(InsertSorted(SubSeq(sorted, 1, Len(sorted) - 1), x), sorted[Len(sorted)])
       ELSE Append(sorted, x)

RECURSIVE SortWaypoints(_)
SortWaypoints(seq) ==
  IF seq = <<>> THEN <<>>
  ELSE InsertSorted(SortWaypoints(SubSeq(seq, 1, Len(seq) - 1)), seq[Len(seq)])

\* Array.from(this.waypoints.values()).sort(...)
SortedWaypoints(w) == SortWaypoints(w.waypoints)

\* haversine distance of two points on the equator: R * |dLng|
calculateDistance(point1, point2) == Abs(point2.lng - point1.lng) * DistPerCoord

\* forward azimuth on the equator: atan2(sin dLng, 0) is 90 or -90 degrees,
\* atan2(0, 0) is 0; (heading + 360) % 360
calculateHeading(from, to) ==
  IF to.lng > from.lng THEN 90 ELSE IF to.lng < from.lng THEN 270 ELSE 0

RECURSIVE SumSegments(_, _)
SumSegments(wps, i) ==
  IF i >= Len(wps) THEN 0
  ELSE calculateDistance(wps[i], wps[i + 1]) + SumSegments(wps, i + 1)

calculateTotalDistance(w) == SumSegments(SortedWaypoints(w), 1)

\* the comparator of updateFlightPath: the home point first, then by label
CompareOnPath(a, b) ==
  IF a.isHome /\ ~b.isHome THEN -1
  ELSE IF ~a.isHome /\ b.isHome THEN 1
  ELSE a.label - b.label

RECURSIVE InsertOnPath(_, _)
InsertOnPath(sorted, x) ==
  IF sorted = <<>> THEN <<x>>
  ELSE IF CompareOnPath(sorted[Len(sorted)], x) > 0
       THEN Append(InsertOnPath(SubSeq(sorted, 1, Len(sorted) - 1), x), sorted[Len(sorted)])
       ELSE Append(sorted, x)

\* waypointArray of updateFlightPath, whose coordinates are the polyline
\* drawn on the map
RECURSIVE FlightPath(_)
FlightPath(seq) ==
  IF seq = <<>> THEN <<>>
  ELSE InsertOnPath(FlightPath(SubSeq(seq, 1, Len(seq) - 1)), seq[Len(seq)])

-----------------------------------------------------------------------------
(* The component and its host as one record, so that a method is a function *)
(* from the state before the call to the state after it. lastAlert is the   *)
(* dialog shown by the handler that ran last, "" when it showed none        *)

World ==
  [waypoints |-> waypoints, missionWeather |-> missionWeather,
   simulationState |-> simulationState, droneTelemetry |-> droneTelemetry,
   droneTrail |-> droneTrail, weatherEffect |-> weatherEffect,
   simulationAnimationId |-> simulationAnimationId,
   telemetryUpdateInterval |-> telemetryUpdateInterval,
   frameQueue |-> frameQueue, intervalTimers |-> intervalTimers,
   now |-> now, lastAlert |-> "",
   missionCompleteAlerts |-> missionCompleteAlerts, trailLog |-> trailLog,
   segmentLog |-> segmentLog, frameTurn |-> frameTurn]

Becomes(w) ==
  /\ waypoints' = w.waypoints
  /\ missionWeather' = w.missionWeather
  /\ simulationState' = w.simulationState
  /\ droneTelemetry' = w.droneTelemetry
  /\ droneTrail' = w.droneTrail
  /\ weatherEffect' = w.weatherEffect
  /\ simulationAnimationId' = w.simulationAnimationId
  /\ telemetryUpdateInterval' = w.telemetryUpdateInterval
  /\ frameQueue' = w.frameQueue
  /\ intervalTimers' = w.intervalTimers
  /\ now' = w.now
  /\ lastAlert' = w.lastAlert
  /\ missionCompleteAlerts' = w.missionCompleteAlerts
  /\ trailLog' = w.trailLog
  /\ segmentLog' = w.segmentLog
  /\ frameTurn' = w.frameTurn

\* a handle the host has not handed out among those still held anywhere
FreshHandle(used) == CHOOSE h \in 1..(Cardinality(used) + 1) : h \notin used

RemoveHandle(seq, h) == SelectSeq(seq, LAMBDA x : x # h)

-----------------------------------------------------------------------------
(* Host facilities *)

\* requestAnimationFrame(animate): queue a callback, keep its handle
requestAnimationFrame(w) ==
  LET h == FreshHandle(Range(w.frameQueue) \cup {w.simulationAnimationId})
  IN [w EXCEPT !.frameQueue = Append(@, h), !.simulationAnimationId = h]

\* cancelAnimationFrame(h): a handle whose callback already ran cancels nothing
cancelAnimationFrame(w, h) == [w EXCEPT !.frameQueue = RemoveHandle(@, h)]

\* window.setInterval(callback, 50), keeping the handle
setInterval(w) ==
  LET h == FreshHandle(w.intervalTimers \cup {w.telemetryUpdateInterval})
  IN [w EXCEPT !.intervalTimers = @ \cup {h}, !.telemetryUpdateInterval = h]

clearInterval(w, h) == [w EXCEPT !.intervalTimers = @ \ {h}]

alert(w, text) == [w EXCEPT !.lastAlert = text]

\* the two dialogs of the simulation
InsufficientWaypoints == "Please add at least 2 waypoints to start simulation"
MissionCompleted == "Mission completed!"

\* what trailLog holds once the trail has been emptied
NoAppends == [pushed |-> <<>>, maxLengthKept |-> TRUE]

\* what segmentLog holds when a segment is entered
NoTicks == [ticks |-> 0, distanceStep |-> 0, steady |-> TRUE]

\* segmentLog after one more frame that advanced progress by distanceStep;
\* once two frames of a segment differ in their step the count is given up
Ticked(log, distanceStep) ==
  IF ~log.steady THEN log
  ELSE IF log.ticks = 0 \/ log.distanceStep = distanceStep
       THEN [log EXCEPT !.ticks = @ + 1, !.distanceStep = distanceStep]
       ELSE [ticks |-> 0, distanceStep |-> 0, steady |-> FALSE]

-----------------------------------------------------------------------------
(* Simulation mode methods *)

stopAnimationLoop(w) ==
  IF w.simulationAnimationId # 0
  THEN [cancelAnimationFrame(w, w.simulationAnimationId) EXCEPT !.simulationAnimationId = 0]
  ELSE w

startAnimationLoop(w) ==
  IF ~w.simulationState.isActive \/ w.simulationState.isPaused THEN w
  ELSE requestAnimationFrame(w)

\* faulty variant: the handle is forgotten and the timer is left running
stopTelemetryUpdatesLeaking(w) == [w EXCEPT !.telemetryUpdateInterval = 0]

stopTelemetryUpdates(w) ==
  IF w.telemetryUpdateInterval # 0
  THEN [clearInterval(w, w.telemetryUpdateInterval) EXCEPT !.telemetryUpdateInterval = 0]
  ELSE w

startTelemetryUpdates(w) == setInterval(stopTelemetryUpdates(w))

initializeDronePosition(w) ==
  LET wps == SortedWaypoints(w) IN
  IF Len(wps) = 0 THEN w
  ELSE LET firstWaypoint == wps[1] IN
       [w EXCEPT !.droneTelemetry =
          [@ EXCEPT !.latitude = firstWaypoint.lat * PScale,
                    !.longitude = firstWaypoint.lng * PScale,
                    !.altitude = firstWaypoint.altitude * PScale,
                    !.speed = firstWaypoint.speed * 10,
                    !.heading = IF Len(wps) > 1
                                THEN calculateHeading(firstWaypoint, wps[2]) ELSE 0,
                    !.battery = BatteryFull]]

\* turbulence in tenths: windSpeed > 10 ? 0.3 : windSpeed > 5 ? 0.1 : 0;
\* the modelled winds blow at 0 degrees, where cos is 1 and sin is 0
updateWeatherEffects(w) ==
  IF w.missionWeather.present /\ w.missionWeather.hasWind
  THEN LET windSpeed == w.missionWeather.wind.speed IN
       [w EXCEPT !.weatherEffect =
                   [windVector |-> [x |-> windSpeed, y |-> 0],
                    visibility |-> IF w.missionWeather.visibility # 0
                                   THEN w.missionWeather.visibility ELSE VISIBILITY_DEFAULT,
                    precipitation |-> w.missionWeather.rainOrSnow,
                    turbulence |-> IF windSpeed > 10 THEN 3 ELSE IF windSpeed > 5 THEN 1 ELSE 0],
                 !.droneTelemetry = [@ EXCEPT !.windSpeed = windSpeed,
                                              !.windDirection = w.missionWeather.wind.deg]]
  ELSE w

\* faulty variant: isPaused is left as it is
stopSimulationKeepingPause(w) ==
  LET w1 == [w EXCEPT !.simulationState =
                        [@ EXCEPT !.isActive = FALSE, !.progress = 0,
                                  !.elapsedTime = 0, !.distanceTraveled = 0]]
      w2 == stopTelemetryUpdates(stopAnimationLoop(w1))
  IN [w2 EXCEPT !.droneTrail = [@ EXCEPT !.positions = <<>>], !.trailLog = NoAppends,
                !.segmentLog = NoTicks]

stopSimulation(w) ==
  LET w1 == [w EXCEPT !.simulationState =
                        [@ EXCEPT !.isActive = FALSE, !.isPaused = FALSE, !.progress = 0,
                                  !.elapsedTime = 0, !.distanceTraveled = 0]]
      w2 == stopTelemetryUpdates(stopAnimationLoop(w1))
  IN [w2 EXCEPT !.droneTrail = [@ EXCEPT !.positions = <<>>], !.trailLog = NoAppends,
                !.segmentLog = NoTicks]

\* faulty variant: a resume flips the flag and restarts neither driver
toggleSimulationPauseNoRestart(w) ==
  LET w1 == [w EXCEPT !.simulationState = [@ EXCEPT !.isPaused = ~@]] IN
  IF ~w1.simulationState.isPaused
  THEN w1
  ELSE stopTelemetryUpdates(stopAnimationLoop(w1))

toggleSimulationPause(w) ==
  LET w1 == [w EXCEPT !.simulationState = [@ EXCEPT !.isPaused = ~@]] IN
  IF ~w1.simulationState.isPaused
  THEN startTelemetryUpdates(startAnimationLoop(w1))
  ELSE stopTelemetryUpdates(stopAnimationLoop(w1))

\* faulty variant: the flight is rewound by one waypoint only
resetSimulationOneBack(w) ==
  LET w1 == [w EXCEPT !.simulationState =
                        [@ EXCEPT !.currentWaypointIndex = Max(0, @ - 1), !.progress = 0,
                                  !.elapsedTime = 0, !.distanceTraveled = 0],
                      !.droneTrail = [@ EXCEPT !.positions = <<>>],
                      !.trailLog = NoAppends, !.segmentLog = NoTicks]
  IN initializeDronePosition(w1)

\* faulty variant: the flight is rewound and the distance flown is kept
resetSimulationKeepingDistance(w) ==
  LET w1 == [w EXCEPT !.simulationState =
                        [@ EXCEPT !.currentWaypointIndex = 0, !.progress = 0,
                                  !.elapsedTime = 0],
                      !.droneTrail = [@ EXCEPT !.positions = <<>>],
                      !.trailLog = NoAppends, !.segmentLog = NoTicks]
  IN initializeDronePosition(w1)

resetSimulation(w) ==
  LET w1 == [w EXCEPT !.simulationState =
                        [@ EXCEPT !.currentWaypointIndex = 0, !.progress = 0,
                                  !.elapsedTime = 0, !.distanceTraveled = 0],
                      !.droneTrail = [@ EXCEPT !.positions = <<>>],
                      !.trailLog = NoAppends, !.segmentLog = NoTicks]
  IN initializeDronePosition(w1)

\* faulty variant: the multiplier is stored as given
setSimulationSpeedUnclamped(w, multiplier) ==
  [w EXCEPT !.simulationState = [@ EXCEPT !.speedMultiplier = multiplier]]

\* multiplier in tenths: Math.max(0.1, Math.min(10, multiplier))
setSimulationSpeed(w, multiplier) ==
  [w EXCEPT !.simulationState =
     [@ EXCEPT !.speedMultiplier =
                 Max(MIN_SPEED_MULTIPLIER, Min(MAX_SPEED_MULTIPLIER, multiplier))]]

\* startSimulation past the test of this.waypoints.size
beginSimulation(w) ==
  LET w1 == [w EXCEPT !.simulationState =
                        [@ EXCEPT !.isActive = TRUE, !.isPaused = FALSE,
                                  !.currentWaypointIndex = 0, !.progress = 0,
                                  !.startTime = w.now, !.elapsedTime = 0,
                                  !.totalDistance = calculateTotalDistance(w),
                                  !.distanceTraveled = 0, !.stepMode = FALSE],
                      !.droneTrail = [@ EXCEPT !.positions = <<>>],
                      !.trailLog = NoAppends, !.segmentLog = NoTicks,
                      !.missionCompleteAlerts = 0]
  IN startTelemetryUpdates(startAnimationLoop(
       updateWeatherEffects(initializeDronePosition(w1))))

\* faulty variant: this.waypoints.size is not tested
startSimulationUnguarded(w) == beginSimulation(w)

startSimulation(w) ==
  IF Len(w.waypoints) < 2
  THEN alert(w, InsufficientWaypoints)
  ELSE beginSimulation(w)

-----------------------------------------------------------------------------
(* The per-frame driver *)

\* windFactor = (x + y) * 0.0001 degrees, i.e. x + y coordinate units
calculateWindEffect(w) ==
  LET windSpeed == w.weatherEffect.windVector.x + w.weatherEffect.windVector.y
  IN [lat |-> w.weatherEffect.windVector.y * windSpeed,
      lng |-> w.weatherEffect.windVector.x * windSpeed]

\* faulty variant: no floor at 0
calculateGroundSpeedUnfloored(w, airSpeed) ==
  LET windSpeed == Sqrt(w.weatherEffect.windVector.x * w.weatherEffect.windVector.x
                        + w.weatherEffect.windVector.y * w.weatherEffect.windVector.y)
  IN airSpeed - windSpeed

\* speeds in tenths of m/s: Math.max(0, airSpeed - windSpeed * 0.1)
calculateGroundSpeed(w, airSpeed) ==
  LET windSpeed == Sqrt(w.weatherEffect.windVector.x * w.weatherEffect.windVector.x
                        + w.weatherEffect.windVector.y * w.weatherEffect.windVector.y)
  IN Max(0, airSpeed - windSpeed)

\* faulty variant: a full trail drops the new position, not the oldest
addToTrailDropsNewest(w) ==
  LET position == [lat |-> w.droneTelemetry.latitude, lng |-> w.droneTelemetry.longitude,
                   altitude |-> w.droneTelemetry.altitude,
                   heading |-> w.droneTelemetry.heading, timestamp |-> w.now]
      pushed == Append(w.droneTrail.positions, position)
  IN [w EXCEPT !.droneTrail.positions =
                 IF Len(pushed) > w.droneTrail.maxLength
                 THEN SubSeq(pushed, 1, Len(pushed) - 1) ELSE pushed,
               !.trailLog.pushed = Append(@, position)]

\* positions.push(position), then one shift() when the length exceeds maxLength
addToTrail(w) ==
  LET position == [lat |-> w.droneTelemetry.latitude, lng |-> w.droneTelemetry.longitude,
                   altitude |-> w.droneTelemetry.altitude,
                   heading |-> w.droneTelemetry.heading, timestamp |-> w.now]
      pushed == Append(w.droneTrail.positions, position)
  IN [w EXCEPT !.droneTrail.positions =
                 IF Len(pushed) > w.droneTrail.maxLength THEN Tail(pushed) ELSE pushed,
               !.trailLog.pushed = Append(@, position)]

\* faulty variant: a segment counts as flown only once progress exceeds 1
ReachesWaypointLate(progress, distanceStep, segmentDistance) ==
  IF segmentDistance = 0 THEN TRUE
  ELSE progress + (distanceStep * PScale) \div segmentDistance > PScale

\* progress + distanceStep / segmentDistance >= 1, in units of 1 / PScale.
\* On a zero segmentDistance progressStep is Infinity when distanceStep > 0
\* and NaN when distanceStep = 0; NaN >= 1 is false, and so is it ever after
ReachesWaypoint(progress, distanceStep, segmentDistance) ==
  IF progress = NaNUnits THEN FALSE
  ELSE IF segmentDistance = 0 THEN distanceStep > 0
  ELSE progress + (distanceStep * PScale) \div segmentDistance >= PScale

\* faulty variant: progress is assigned the step, not advanced by it
newProgressAssigned(progress, distanceStep, segmentDistance) ==
  (distanceStep * PScale) \div segmentDistance

\* this.simulationState.progress += progressStep, in units of 1 / PScale;
\* NaN + x is NaN, and so is x + 0 / 0
newProgress(progress, distanceStep, segmentDistance) ==
  IF progress = NaNUnits \/ (segmentDistance = 0 /\ distanceStep = 0) THEN NaNUnits
  ELSE progress + (distanceStep * PScale) \div segmentDistance

\* faulty variant: the difference is taken the wrong way round
elapsedTimeReversed(w) == w.simulationState.startTime - w.now

\* (Date.now() - this.simulationState.startTime) / 1000
elapsedTime(w) == w.now - w.simulationState.startTime

\* faulty variant: step mode is not looked at
reachNextWaypointNoStep(w) ==
  [w EXCEPT !.simulationState =
              [@ EXCEPT !.currentWaypointIndex = @ + 1, !.progress = 0],
            !.segmentLog = NoTicks]

\* faulty variant: progress is zeroed and the index stays
reachNextWaypointStaying(w) ==
  LET w1 == [w EXCEPT !.simulationState = [@ EXCEPT !.progress = 0],
                      !.segmentLog = NoTicks]
  IN IF w1.simulationState.stepMode THEN toggleSimulationPause(w1) ELSE w1

\* faulty variant: the waypoint after the next is taken as reached too
reachNextWaypointSkipping(w) ==
  LET w1 == [w EXCEPT !.simulationState =
                        [@ EXCEPT !.currentWaypointIndex = @ + 2, !.progress = 0],
                      !.segmentLog = NoTicks]
  IN IF w1.simulationState.stepMode THEN toggleSimulationPause(w1) ELSE w1

\* the branch of updateDronePosition taken once progress >= 1
reachNextWaypoint(w) ==
  LET w1 == [w EXCEPT !.simulationState =
                        [@ EXCEPT !.currentWaypointIndex = @ + 1, !.progress = 0],
                      !.segmentLog = NoTicks]
  IN IF w1.simulationState.stepMode THEN toggleSimulationPause(w1) ELSE w1

updateDronePosition(w) ==
  LET wps == SortedWaypoints(w)
      currentIndex == w.simulationState.currentWaypointIndex
  IN
  IF Len(wps) < 2 THEN w
  ELSE IF currentIndex >= Len(wps) - 1
  THEN \* Mission complete
       LET stopped == alert(stopSimulation(w), MissionCompleted)
       IN [stopped EXCEPT !.missionCompleteAlerts = @ + 1]
  ELSE
    LET currentWaypoint == wps[currentIndex + 1]
        nextWaypoint == wps[currentIndex + 2]
        actualSpeed == nextWaypoint.speed * w.simulationState.speedMultiplier
        distanceStep == actualSpeed
        segmentDistance == calculateDistance(currentWaypoint, nextWaypoint)
    IN
    IF ReachesWaypoint(w.simulationState.progress, distanceStep, segmentDistance)
    THEN reachNextWaypoint(w)
    ELSE
      LET progress == newProgress(w.simulationState.progress, distanceStep, segmentDistance)
          nan == progress = NaNUnits    \* every product and sum below is then NaN
          newLat == currentWaypoint.lat * PScale
                      + (nextWaypoint.lat - currentWaypoint.lat) * progress
          newLng == currentWaypoint.lng * PScale
                      + (nextWaypoint.lng - currentWaypoint.lng) * progress
          newAlt == currentWaypoint.altitude * PScale
                      + (nextWaypoint.altitude - currentWaypoint.altitude) * progress
          windOffset == calculateWindEffect(w)
          w1 == [w EXCEPT
                   !.simulationState =
                     [@ EXCEPT !.progress = progress,
                               !.elapsedTime = elapsedTime(w),
                               !.distanceTraveled = @ + distanceStep],
                   !.segmentLog = Ticked(@, distanceStep),
                   !.droneTelemetry =
                     [@ EXCEPT
                        !.latitude = IF nan THEN NaNUnits
                                     ELSE newLat + windOffset.lat * PScale,
                        !.longitude = IF nan THEN NaNUnits
                                      ELSE newLng + windOffset.lng * PScale,
                        !.altitude = IF nan THEN NaNUnits ELSE newAlt,
                        !.speed = actualSpeed,
                        !.heading = IF nan THEN NaNUnits
                                    ELSE calculateHeading([lng |-> newLng],
                                                          [lng |-> nextWaypoint.lng * PScale]),
                        !.groundSpeed = calculateGroundSpeed(w, actualSpeed),
                        !.distanceToWaypoint = IF nan THEN NaNUnits
                                               ELSE segmentDistance * (PScale - progress),
                        !.timeToWaypoint =
                           IF nan THEN NaN
                           ELSE Quot(segmentDistance * (PScale - progress) * DeltaTimeNum,
                                     PScale * actualSpeed * DeltaTimeDen)]]
      IN addToTrail(w1)

\* faulty variant: the callback runs whatever the state
animateUnguarded(w) == requestAnimationFrame(updateDronePosition(w))

\* the callback of startAnimationLoop, run by the host for one queued handle;
\* updateDroneMarker and updateTrail redraw and change nothing modelled
animate(w) ==
  IF ~w.simulationState.isActive \/ w.simulationState.isPaused THEN w
  ELSE requestAnimationFrame(updateDronePosition(w))

-----------------------------------------------------------------------------
(* The fixed-rate driver *)

\* faulty variant: no floor at 0
batteryAfterDrainUnfloored(battery, speedMultiplier) ==
  battery - BatteryDrainRate * speedMultiplier

\* faulty variant: the drain is added
batteryAfterDrainAdded(battery, speedMultiplier) ==
  Max(0, battery + BatteryDrainRate * speedMultiplier)

\* Math.max(0, battery - 0.001 * speedMultiplier)
batteryAfterDrain(battery, speedMultiplier) ==
  Max(0, battery - BatteryDrainRate * speedMultiplier)

\* the callback of startTelemetryUpdates; avgSpeed = groundSpeed || 1
telemetryCallback(w) ==
  IF ~w.simulationState.isActive \/ w.simulationState.isPaused THEN w
  ELSE
    LET remainingDistance == w.simulationState.totalDistance
                               - w.simulationState.distanceTraveled
        avgSpeed == IF w.droneTelemetry.groundSpeed # 0
                    THEN w.droneTelemetry.groundSpeed ELSE 10
    IN [w EXCEPT
          !.droneTelemetry.battery = batteryAfterDrain(@, w.simulationState.speedMultiplier),
          !.simulationState.estimatedTimeRemaining =
             Quot(remainingDistance * DeltaTimeNum, avgSpeed * DeltaTimeDen)]

\* n callbacks of the timer with nothing else in between: each of the first
\* n - 1 lowers the battery by the same drain until it is empty
telemetryCallbacks(w, n) ==
  LET drained == BatteryDrainRate * w.simulationState.speedMultiplier * (n - 1)
  IN IF ~w.simulationState.isActive \/ w.simulationState.isPaused THEN w
     ELSE telemetryCallback([w EXCEPT !.droneTelemetry.battery = Max(0, @ - drained)])

-----------------------------------------------------------------------------
(* Initial state: the field initialisers of MapApp *)

Zero == Quot(0, 1)

\* the initialiser of this.droneTelemetry
FreshTelemetry ==
  [latitude |-> 0, longitude |-> 0, altitude |-> 0, speed |-> 0, heading |-> 0,
   battery |-> BatteryFull, windSpeed |-> 0, windDirection |-> 0,
   groundSpeed |-> 0, timeToWaypoint |-> Zero, distanceToWaypoint |-> 0]

Init ==
  /\ waypoints = <<>>
  /\ missionWeather = NoWeather
  /\ simulationState =
       [isActive |-> FALSE, isPaused |-> FALSE, currentWaypointIndex |-> 0,
        progress |-> 0, speedMultiplier |-> DEFAULT_SPEED_MULTIPLIER, startTime |-> 0,
        elapsedTime |-> 0, totalDistance |-> 0, distanceTraveled |-> 0,
        estimatedTimeRemaining |-> Zero, stepMode |-> FALSE]
  /\ droneTelemetry = FreshTelemetry
  /\ droneTrail = [positions |-> <<>>, maxLength |-> DEFAULT_TRAIL_LENGTH]
  /\ weatherEffect =
       [windVector |-> [x |-> 0, y |-> 0], visibility |-> VISIBILITY_MIN,
        precipitation |-> FALSE, turbulence |-> 0]
  /\ simulationAnimationId = 0
  /\ telemetryUpdateInterval = 0
  /\ frameQueue = <<>>
  /\ intervalTimers = {}
  /\ now = 0
  /\ lastAlert = ""
  /\ missionCompleteAlerts = 0
  /\ trailLog = NoAppends
  /\ segmentLog = NoTicks
  /\ frameTurn = 0

-----------------------------------------------------------------------------
(* Trail controls of the simulation tab *)

\* @input of the 'Max trail points' slider with target.value denoting the
\* number value: maxLength becomes parseInt(target.value), the positions stay
trailLengthInput(w, value) ==
  [w EXCEPT !.droneTrail = [@ EXCEPT !.maxLength = value],
            !.trailLog.maxLengthKept = @ /\ value = w.droneTrail.maxLength]

\* @click of 'Clear Trail'; removeTrailPolyline only redraws
clearTrail(w) ==
  [w EXCEPT !.droneTrail.positions = <<>>, !.trailLog = NoAppends]

-----------------------------------------------------------------------------
(* Inputs *)

\* arguments of setSimulationSpeed, in tenths: one below and one above the
\* range of the clamp, which turns them into the ends of the slider
SpeedInputs == {0, 9990}

\* weather reports fetchMissionWeather can store
WeatherReports == {NoWeather, WindyWeather}

\* how many timer callbacks the host runs before anything else happens
TimerRuns == {1, BurstLen}

\* values the trail slider's input event delivers: two stops of the slider
\* (min 10, max 500, step 10) and one value below its range
TrailLengthInputs == {MIN_TRAIL_LENGTH - 5, MIN_TRAIL_LENGTH, 2 * MIN_TRAIL_LENGTH}

-----------------------------------------------------------------------------
(* Actions: the mission editor *)

\* handleMapClick -> addWaypoint(lat, lng); the first waypoint is the home point
AddWaypoint(id, lng) ==
  /\ Len(waypoints) < MaxWaypoints
  /\ id \in UnusedUuids(waypoints)
  /\ waypoints' = Append(waypoints, NewWaypoint(id, lng, Len(waypoints) = 0, Len(waypoints) + 1))
  /\ UNCHANGED <<missionWeather, simulationState, droneTelemetry, droneTrail,
                 weatherEffect, simulationAnimationId, telemetryUpdateInterval,
                 frameQueue, intervalTimers, now, missionCompleteAlerts, trailLog,
                 segmentLog, frameTurn>>
  /\ lastAlert' = ""

\* deleteWaypoint(id) for the i-th waypoint in insertion order
DeleteWaypoint(i) ==
  /\ i \in 1..Len(waypoints)
  /\ waypoints' = SubSeq(waypoints, 1, i - 1) \o SubSeq(waypoints, i + 1, Len(waypoints))
  /\ UNCHANGED <<missionWeather, simulationState, droneTelemetry, droneTrail,
                 weatherEffect, simulationAnimationId, telemetryUpdateInterval,
                 frameQueue, intervalTimers, now, missionCompleteAlerts, trailLog,
                 segmentLog, frameTurn>>
  /\ lastAlert' = ""

\* fetchMissionWeather resolves: null without waypoints or API key, else a report
MissionWeatherFetched(report) ==
  /\ missionWeather' = IF Len(waypoints) = 0 THEN NoWeather ELSE report
  /\ missionWeather' # missionWeather
  /\ UNCHANGED <<waypoints, simulationState, droneTelemetry, droneTrail,
                 weatherEffect, simulationAnimationId, telemetryUpdateInterval,
                 frameQueue, intervalTimers, now, missionCompleteAlerts, trailLog,
                 segmentLog, frameTurn>>
  /\ lastAlert' = ""

\* {...waypoint, ...newProps}
MergeProps(waypoint, newProps) ==
  [f \in DOMAIN waypoint |-> IF f \in DOMAIN newProps THEN newProps[f] ELSE waypoint[f]]

\* updateWaypoint(id, newProps) for the i-th waypoint in insertion order: the
\* marker is dragged (lat, lng) or the altitude field of the form is edited
UpdateWaypoint(i, newProps) ==
  /\ i \in 1..Len(waypoints)
  /\ waypoints' = [waypoints EXCEPT ![i] = MergeProps(@, newProps)]
  /\ waypoints' # waypoints
  /\ UNCHANGED <<missionWeather, simulationState, droneTelemetry, droneTrail,
                 weatherEffect, simulationAnimationId, telemetryUpdateInterval,
                 frameQueue, intervalTimers, now, missionCompleteAlerts, trailLog,
                 segmentLog, frameTurn>>
  /\ lastAlert' = ""

\* the alert of a successful loadMission; the mission's name plays no part
MissionLoaded == "Mission loaded successfully!"

\* loadMission with a file that parses: the waypoints of the file replace
\* those of the component, missionWeather = mission.weatherSnapshot || null
LoadMission(mission) ==
  /\ waypoints' = mission.waypoints
  /\ missionWeather' = mission.weatherSnapshot
  /\ lastAlert' = MissionLoaded
  /\ UNCHANGED <<simulationState, droneTelemetry, droneTrail,
                 weatherEffect, simulationAnimationId, telemetryUpdateInterval,
                 frameQueue, intervalTimers, now, missionCompleteAlerts, trailLog,
                 segmentLog, frameTurn>>

-----------------------------------------------------------------------------
(* Actions: the simulation tab (renderSimulationTab) *)

\* a call of startSimulation while the simulation is not active: the Start
\* button, which the page enables from two waypoints on, or a direct call
StartSimulation ==
  /\ ~simulationState.isActive
  /\ Len(frameQueue) < MaxQueued
  /\ Becomes(startSimulation(World))

\* Pause / Resume button, rendered while the simulation is active
ToggleSimulationPause ==
  /\ simulationState.isActive
  /\ simulationState.isPaused => Len(frameQueue) < MaxQueued
  /\ Becomes(toggleSimulationPause(World))

\* Stop button
StopSimulation ==
  /\ simulationState.isActive
  /\ Becomes(stopSimulation(World))

\* Reset button
ResetSimulation ==
  /\ simulationState.isActive
  /\ Becomes(resetSimulation(World))

\* speed slider and presets, enabled while the simulation is active
SetSimulationSpeed(multiplier) ==
  /\ simulationState.isActive
  /\ Becomes(setSimulationSpeed(World, multiplier))

\* step-mode checkbox
SetStepMode ==
  /\ simulationState' = [simulationState EXCEPT !.stepMode = ~@]
  /\ UNCHANGED <<waypoints, missionWeather, droneTelemetry, droneTrail,
                 weatherEffect, simulationAnimationId, telemetryUpdateInterval,
                 frameQueue, intervalTimers, now, missionCompleteAlerts, trailLog,
                 segmentLog, frameTurn>>
  /\ lastAlert' = ""

\* 'Max trail points' slider
SetTrailLength(value) ==
  /\ value # droneTrail.maxLength
  /\ Becomes(trailLengthInput(World, value))

\* 'Clear Trail' button
ClearTrail ==
  /\ droneTrail.positions # <<>>
  /\ Becomes(clearTrail(World))

-----------------------------------------------------------------------------
(* Actions: the host *)

\* the host runs the oldest queued animation-frame callback
AnimationFrame ==
  /\ frameQueue # <<>>
  /\ Becomes(animate([World EXCEPT !.frameQueue = Tail(@)]))

\* the host runs the callback of a live interval timer, n times in a row
TelemetryTimer(n) ==
  /\ intervalTimers # {}
  /\ n = 1 => \/ BatteryFull - droneTelemetry.battery < MaxDrain
              \/ droneTelemetry.battery = 0
  /\ Becomes(telemetryCallbacks(World, n))

\* the wall clock advances
ClockTick ==
  /\ now < MaxNow
  /\ now' = now + 1
  /\ UNCHANGED <<waypoints, missionWeather, simulationState, droneTelemetry, droneTrail,
                 weatherEffect, simulationAnimationId, telemetryUpdateInterval,
                 frameQueue, intervalTimers, missionCompleteAlerts, trailLog,
                 segmentLog, frameTurn>>
  /\ lastAlert' = ""

-----------------------------------------------------------------------------
(* Specification: the waypoint path is edited only between runs *)

\* where the next map click lands: the home point at longitude 0, the second
\* waypoint one unit east of it, later ones anywhere (on an earlier waypoint
\* or apart from it)
Placements(wps) ==
  IF Len(wps) = 0 THEN {0} ELSE IF Len(wps) = 1 THEN {1} ELSE Coords

\* a map click, or the delete button of the waypoint added last
EditMission ==
  /\ ~simulationState.isActive
  /\ \/ /\ UnusedUuids(waypoints) # {}
        /\ \E lng \in Placements(waypoints) : AddWaypoint(NextUuid(waypoints), lng)
     \/ DeleteWaypoint(Len(waypoints))

Next ==
  \/ EditMission
  \/ \E report \in WeatherReports : MissionWeatherFetched(report)
  \/ StartSimulation
  \/ ToggleSimulationPause
  \/ StopSimulation
  \/ ResetSimulation
  \/ \E multiplier \in SpeedInputs : SetSimulationSpeed(multiplier)
  \/ SetStepMode
  \/ AnimationFrame
  \/ \E n \in TimerRuns : TelemetryTimer(n)
  \/ ClockTick

Spec == Init /\ [][Next]_vars

-----------------------------------------------------------------------------
(* Specification: the mission editor, with identifiers in any order *)

\* new properties updateWaypoint is called with: a drag of the marker to a
\* longitude, or an altitude typed into the form
WaypointEdits ==
  {[lat |-> 0, lng |-> lng] : lng \in Coords} \cup {[altitude |-> DEFAULT_ALTITUDE \div 2]}

\* mission files: one as saveMission writes it for a mission of two
\* waypoints, and one edited by hand in which both waypoints are flagged home
MissionFiles ==
  {[waypoints |-> <<NewWaypoint("7c9e", 0, TRUE, 1), NewWaypoint("a3f1", 1, FALSE, 2)>>,
    weatherSnapshot |-> NoWeather],
   [waypoints |-> <<NewWaypoint("a3f1", 0, TRUE, 1), NewWaypoint("3b7e", 1, TRUE, 2)>>,
    weatherSnapshot |-> WindyWeather]}

NextMission ==
  \/ \E id \in UnusedUuids(waypoints), lng \in Coords : AddWaypoint(id, lng)
  \/ \E i \in 1..Len(waypoints) : DeleteWaypoint(i)
  \/ \E i \in 1..Len(waypoints), newProps \in WaypointEdits : UpdateWaypoint(i, newProps)
  \/ \E mission \in MissionFiles : LoadMission(mission)
  \/ StartSimulation
  \/ StopSimulation

SpecMission == Init /\ [][NextMission]_vars

-----------------------------------------------------------------------------
(* Specification: the trail controls during flights over one long leg *)

\* the longest leg on which a frame at the slowest speed advances progress
\* by a whole unit of 1 / PScale
FarLng == PScale \div 2

\* two map clicks: the home point, then the far end of the leg
PlanLongLeg ==
  /\ ~simulationState.isActive
  /\ Len(waypoints) < 2
  /\ AddWaypoint(NextUuid(waypoints), IF Len(waypoints) = 0 THEN 0 ELSE FarLng)

NextTrail ==
  \/ PlanLongLeg
  \/ StartSimulation
  \/ StopSimulation
  \/ ResetSimulation
  \/ \E multiplier \in SpeedInputs : SetSimulationSpeed(multiplier)
  \/ AnimationFrame
  \/ \E value \in TrailLengthInputs : SetTrailLength(value)
  \/ ClearTrail

SpecTrail == Init /\ [][NextTrail]_vars

-----------------------------------------------------------------------------
(* Specification: flights over one long leg in winds of several strengths *)

\* wind speeds of the reports, in m/s: calm, a breeze, and gales at and above
\* WEATHER_THRESHOLDS.WIND_DANGER
WindSpeeds == {0, 5, WIND_DANGER, WIND_DANGER + 10}

\* reports fetchMissionWeather stores, and its null
WindReports ==
  {NoWeather} \cup {[WindyWeather EXCEPT !.wind.speed = speed] : speed \in WindSpeeds}

NextWind ==
  \/ PlanLongLeg
  \/ \E report \in WindReports : MissionWeatherFetched(report)
  \/ StartSimulation
  \/ StopSimulation
  \/ \E multiplier \in SpeedInputs : SetSimulationSpeed(multiplier)
  \/ AnimationFrame

SpecWind == Init /\ [][NextWind]_vars

-----------------------------------------------------------------------------
(* Specification: flights of missions whose waypoint speeds were edited *)

MaxFrames == 3         \* frames of a run are explored until MaxFrames positions
                       \* were pushed onto its trail

\* values the input event of the form's speed field delivers, in m/s:
\* Number('') = 0 of the emptied field, and the default typed back
SpeedEdits == {0, DEFAULT_SPEED}

\* the speed field of the waypoint form, used between runs
EditSpeed ==
  /\ ~simulationState.isActive
  /\ \E i \in 1..Len(waypoints), speed \in SpeedEdits :
       UpdateWaypoint(i, [speed |-> speed])

\* a frame of a flight that may hover for ever
BoundedFrame ==
  /\ Len(trailLog.pushed) < MaxFrames
  /\ AnimationFrame

NextSpeed ==
  \/ EditMission
  \/ EditSpeed
  \/ StartSimulation
  \/ StopSimulation
  \/ BoundedFrame

SpecSpeed == Init /\ [][NextSpeed]_vars

-----------------------------------------------------------------------------
(* Specification: flights left alone, with the host delivering every frame *)

\* AnimationFrame, with the host marking the delivery in frameTurn
DeliverFrame ==
  /\ frameQueue # <<>>
  /\ Becomes([animate([World EXCEPT !.frameQueue = Tail(@)]) EXCEPT !.frameTurn = 1 - @])

\* the mark alone: the steps that flip frameTurn are the DeliverFrame steps,
\* and one is possible exactly when a callback is queued
FrameDelivered ==
  /\ frameQueue # <<>>
  /\ frameTurn' = 1 - frameTurn

\* no pause, stop, reset or step mode; the path is edited between runs only
NextFlight ==
  \/ EditMission
  \/ StartSimulation
  \/ \E multiplier \in SpeedInputs : SetSimulationSpeed(multiplier)
  \/ DeliverFrame

\* a callback handed to requestAnimationFrame is run by the host: while one
\* is queued, a delivery follows
SpecFlight == Init /\ [][NextFlight]_vars /\ WF_frameTurn(FrameDelivered)

-----------------------------------------------------------------------------
(* Properties *)

Suspended == ~simulationState.isActive \/ simulationState.isPaused

LastIndex == Len(waypoints) - 1

\* C1: once the simulation is paused or stopped, by the user or from inside
\* a frame callback, no frame callback remains queued with the host
C1_NoFrameQueuedWhileSuspended == Suspended => frameQueue = <<>>

\* C2: a start with fewer than two waypoints changes nothing: simulation
\* state, telemetry, trail, weather effect and the registrations of both
\* drivers are as they were before the call
C2_RejectedStartMutatesNothing ==
  [][(StartSimulation /\ Len(waypoints) < 2) =>
       UNCHANGED <<simulationState, droneTelemetry, droneTrail, weatherEffect,
                   simulationAnimationId, telemetryUpdateInterval,
                   frameQueue, intervalTimers>>]_vars

\* a start was rejected in a state an earlier run has left behind: the index
\* of its last waypoint, a drained battery, a stale frame callback
C2_RejectedStartAfterRun ==
  /\ lastAlert = InsufficientWaypoints
  /\ simulationState.currentWaypointIndex > 0
  /\ droneTelemetry.battery < BatteryFull
  /\ frameQueue # <<>>

\* C3: right after a successful start the simulation is running at index 0
\* with progress, elapsed time and distance travelled 0, the total distance
\* is the sum of the segments, the trail is empty, and the telemetry is what
\* a start yields from freshly constructed telemetry: nothing of the earlier
\* run is left in it
C3_StartInitialisesEverything ==
  [][(StartSimulation /\ Len(waypoints) >= 2) =>
       /\ simulationState'.isActive /\ ~simulationState'.isPaused
       /\ simulationState'.currentWaypointIndex = 0
       /\ simulationState'.progress = 0
       /\ simulationState'.elapsedTime = 0
       /\ simulationState'.distanceTraveled = 0
       /\ simulationState'.totalDistance = SumSegments(SortWaypoints(waypoints), 1)
       /\ droneTrail'.positions = <<>>
       /\ droneTelemetry' =
            startSimulation([World EXCEPT !.droneTelemetry = FreshTelemetry]).droneTelemetry
    ]_vars

\* C4: a run that has flown past its last segment ends with the
\* mission-complete signal given exactly once, whatever else happened in it
C4_RunPastLastSegmentSignalsOnce ==
  [][(/\ simulationState.isActive
      /\ simulationState.currentWaypointIndex >= LastIndex
      /\ ~simulationState'.isActive) => missionCompleteAlerts' = 1]_vars

\* C5: while the simulation is active, 0 <= currentWaypointIndex < len - 1
C5_IndexBelowLastWhileActive ==
  simulationState.isActive =>
    /\ 0 <= simulationState.currentWaypointIndex
    /\ simulationState.currentWaypointIndex < LastIndex

\* C6: the frame callback that moves the index onto the last waypoint ends
\* the run and gives the mission-complete signal itself, in step mode or not
C6_FinalTickCompletesMission ==
  [][(/\ simulationState.isActive
      /\ simulationState.currentWaypointIndex < LastIndex
      /\ simulationState'.currentWaypointIndex >= LastIndex) =>
       /\ ~simulationState'.isActive
       /\ lastAlert' = MissionCompleted]_vars

C9_BatteryWithinRange ==
  /\ 0 <= droneTelemetry.battery
  /\ droneTelemetry.battery <= BatteryFull

\* the battery is empty while the timer still runs at the highest multiplier
C9_EmptyBatteryTimerLive ==
  /\ droneTelemetry.battery = 0
  /\ intervalTimers # {}
  /\ simulationState.isActive /\ ~simulationState.isPaused
  /\ simulationState.speedMultiplier = MAX_SPEED_MULTIPLIER

\* C10: while the simulation is paused or idle, a callback of either driver
\* changes neither the simulation state nor the telemetry nor the trail
C10_DriversIdleWhileSuspended ==
  Suspended =>
    \A after \in {animate(World), telemetryCallback(World)} :
      /\ after.simulationState = simulationState
      /\ after.droneTelemetry = droneTelemetry
      /\ after.droneTrail = droneTrail

\* a frame callback is due while the simulation is paused in mid-mission
C10_FrameDueWhilePaused ==
  /\ simulationState.isPaused
  /\ frameQueue # <<>>
  /\ simulationState.currentWaypointIndex < LastIndex

-----------------------------------------------------------------------------
(* Properties of the trail, checked under SpecTrail *)

\* C11: the trail never holds more positions than maxLength allows, whatever
\* the order of frames, clears of the trail and changes of maxLength, a
\* lowering of maxLength below the current length during a run included
C11_TrailWithinMaxLength == Len(droneTrail.positions) <= droneTrail.maxLength

\* the last n elements of a sequence that has at least n
LastN(seq, n) == SubSeq(seq, Len(seq) - n + 1, Len(seq))

\* C12: while maxLength has stayed at n since the trail was last emptied,
\* after k appends the trail holds the last min(k, n) appended positions in
\* the order of their appending
C12_TrailHoldsLastAppended ==
  trailLog.maxLengthKept =>
    droneTrail.positions =
      LastN(trailLog.pushed, Min(Len(trailLog.pushed), droneTrail.maxLength))

\* the slider stood at 10 throughout and at least 20 positions were appended:
\* the trail has evicted the oldest ones and starts at the (k - 9)th
C12_OldestEvicted ==
  /\ trailLog.maxLengthKept
  /\ droneTrail.maxLength = MIN_TRAIL_LENGTH
  /\ Len(trailLog.pushed) >= 2 * MIN_TRAIL_LENGTH
  /\ Len(droneTrail.positions) = MIN_TRAIL_LENGTH
  /\ droneTrail.positions[1] = trailLog.pushed[Len(trailLog.pushed) - 9]
  /\ droneTrail.positions[1] # trailLog.pushed[1]

\* x limited to the interval from lo to hi
Clamp(x, lo, hi) == IF x < lo THEN lo ELSE IF x > hi THEN hi ELSE x

-----------------------------------------------------------------------------
(* Properties of the simulation controls, checked under Spec *)

\* the preset buttons 0.5x, 1x, 2x and 5x, in tenths
SpeedPresets == {5, 10, 20, 50}

\* arguments setSimulationSpeed is probed with: the inputs of the model, the
\* presets, both ends of the range, their neighbours and a negative number
SpeedArguments ==
  SpeedInputs \cup SpeedPresets
    \cup {-MAX_SPEED_MULTIPLIER, MIN_SPEED_MULTIPLIER - 1, MIN_SPEED_MULTIPLIER,
          MIN_SPEED_MULTIPLIER + 1, MAX_SPEED_MULTIPLIER - 1, MAX_SPEED_MULTIPLIER,
          MAX_SPEED_MULTIPLIER + 1}

C15_StopHaltsAndKeepsPreferences ==
  [][StopSimulation =>
       /\ ~simulationState'.isActive /\ ~simulationState'.isPaused
       /\ simulationState'.progress = 0
       /\ simulationState'.elapsedTime = 0
       /\ simulationState'.distanceTraveled = 0
       /\ droneTrail'.positions = <<>>
       /\ frameQueue' = <<>> /\ intervalTimers' = {}
       /\ simulationState'.speedMultiplier = simulationState.speedMultiplier
       /\ simulationState'.stepMode = simulationState.stepMode]_vars

\* C16: resetSimulation, called while the simulation is active, sets
\* currentWaypointIndex, progress, elapsedTime and distanceTraveled to 0 and
\* empties the trail; isActive, isPaused, speedMultiplier, stepMode and
\* totalDistance stay as they were; a running simulation keeps running with
\* both drivers scheduled, a paused one stays paused with none scheduled
C16_ResetRewindsWithinRun ==
  [][ResetSimulation =>
       /\ simulationState'.currentWaypointIndex = 0
       /\ simulationState'.progress = 0
       /\ simulationState'.elapsedTime = 0
       /\ simulationState'.distanceTraveled = 0
       /\ droneTrail'.positions = <<>>
       /\ simulationState'.isActive = simulationState.isActive
       /\ simulationState'.isPaused = simulationState.isPaused
       /\ simulationState'.speedMultiplier = simulationState.speedMultiplier
       /\ simulationState'.stepMode = simulationState.stepMode
       /\ simulationState'.totalDistance = simulationState.totalDistance
       /\ IF simulationState'.isPaused
          THEN frameQueue' = <<>> /\ intervalTimers' = {}
          ELSE frameQueue' # <<>> /\ intervalTimers' # {}]_vars

\* what the claims on reset and on pause and resume compare
Observed(w) == <<w.simulationState, w.droneTelemetry, w.droneTrail>>

\* C17: from any active state, simulation state, telemetry and trail after
\* two calls of resetSimulation with no tick in between equal those after
\* one call
C17_ResetIdempotent ==
  simulationState.isActive =>
    Observed(resetSimulation(resetSimulation(World))) = Observed(resetSimulation(World))

\* a flight well under way, which a reset changes in every part: past the
\* first waypoint, inside a segment, the trail begun, the battery drained
C17_FlightUnderWay ==
  /\ simulationState.isActive
  /\ simulationState.currentWaypointIndex > 0
  /\ simulationState.progress > 0
  /\ simulationState.distanceTraveled > 0
  /\ droneTrail.positions # <<>>
  /\ droneTelemetry.battery < BatteryFull
  /\ Observed(resetSimulation(World)) # Observed(World)

\* C18: from any running state, a pause followed at once by a resume, with
\* no callback and no time in between, gives back the simulation state
\* (isPaused false), the telemetry and the trail exactly as they were, and
\* both drivers are scheduled again
C18_PauseResumeRestoresState ==
  (simulationState.isActive /\ ~simulationState.isPaused) =>
    LET paused == toggleSimulationPause(World)
        resumed == toggleSimulationPause(paused)
    IN /\ paused.simulationState.isPaused
       /\ paused.intervalTimers = {}
       /\ Observed(resumed) = Observed(World)
       /\ resumed.simulationAnimationId \in Range(resumed.frameQueue)
       /\ resumed.telemetryUpdateInterval \in resumed.intervalTimers

\* a running flight inside a segment, with time elapsed, distance flown,
\* the battery drained and the trail begun
C18_RunningMidSegment ==
  /\ simulationState.isActive /\ ~simulationState.isPaused
  /\ simulationState.progress > 0
  /\ simulationState.elapsedTime > 0
  /\ simulationState.distanceTraveled > 0
  /\ droneTelemetry.battery < BatteryFull
  /\ droneTrail.positions # <<>>

\* C19: in step mode every frame that reaches a waypoint leaves the
\* simulation paused, and a paused simulation stays paused, with simulation
\* state, telemetry and trail frozen, whatever callbacks the host runs and
\* however time passes, until the user resumes (or stops); without step mode
\* a frame that reaches a waypoint other than the last leaves it running
C19_StepModePausesAtWaypoints ==
  [][/\ (AnimationFrame /\ simulationState'.currentWaypointIndex
                             > simulationState.currentWaypointIndex) =>
          /\ simulationState'.isActive
          /\ simulationState.stepMode => simulationState'.isPaused
          /\ (~simulationState.stepMode
                /\ simulationState'.currentWaypointIndex < Len(waypoints) - 1)
               => ~simulationState'.isPaused
     /\ (simulationState.isPaused
           /\ (AnimationFrame \/ ClockTick \/ \E n \in TimerRuns : TelemetryTimer(n))) =>
          UNCHANGED <<simulationState, droneTelemetry, droneTrail>>
     /\ (simulationState.isPaused /\ ~simulationState'.isPaused) =>
          (ToggleSimulationPause \/ StopSimulation)]_vars

\* step mode has paused the flight at a waypoint it reached in a frame; the
\* callback of that frame is queued again
C19_PausedAtWaypoint ==
  /\ simulationState.isActive /\ simulationState.isPaused
  /\ simulationState.stepMode
  /\ simulationState.currentWaypointIndex > 0
  /\ simulationState.progress = 0
  /\ frameQueue # <<>>

\* C20: a successful startSimulation leaves the preferences speedMultiplier
\* and stepMode as the user set them: step mode ticked before Start is still
\* on in the run that begins
C20_StartKeepsPreferences ==
  [][(StartSimulation /\ Len(waypoints) >= 2) =>
       /\ simulationState'.speedMultiplier = simulationState.speedMultiplier
       /\ simulationState'.stepMode = simulationState.stepMode]_vars

-----------------------------------------------------------------------------
(* Properties of weather, bookkeeping and the home point, checked under Spec *)

\* C21: a start while the mission has no weather or no wind data gives the
\* run the zero wind vector, whatever wind an earlier run was started with
C21_NoWeatherMeansNoWind ==
  [][(StartSimulation /\ Len(waypoints) >= 2
        /\ ~(missionWeather.present /\ missionWeather.hasWind)) =>
       weatherEffect'.windVector = [x |-> 0, y |-> 0]]_vars

HomePoints(wps) == {i \in 1..Len(wps) : wps[i].isHome}

\* C23: when the mission has a home point, the telemetry right after a
\* successful start shows the position and the altitude of a waypoint
\* flagged home, wherever that waypoint stands in insertion order
C23_StartsAtHomePoint ==
  [][(StartSimulation /\ Len(waypoints) >= 2 /\ HomePoints(waypoints) # {}) =>
       \E i \in HomePoints(waypoints) :
         /\ droneTelemetry'.latitude = waypoints[i].lat * PScale
         /\ droneTelemetry'.longitude = waypoints[i].lng * PScale
         /\ droneTelemetry'.altitude = waypoints[i].altitude * PScale]_vars

\* C24: whatever waypoints are added, deleted, updated or loaded, at most
\* one waypoint is flagged home; the first waypoint added to an empty mission
\* is home; a deletion flags no waypoint home that was not
C24_AtMostOneHomePoint ==
  [][/\ Cardinality(HomePoints(waypoints')) <= 1
     /\ (Len(waypoints) = 0 /\ Len(waypoints') = 1
           /\ \E id \in UnusedUuids(waypoints), lng \in Coords : AddWaypoint(id, lng))
          => waypoints'[1].isHome
     /\ (\E i \in 1..Len(waypoints) : DeleteWaypoint(i)) =>
          {waypoints'[j].id : j \in HomePoints(waypoints')}
            \subseteq {waypoints[j].id : j \in HomePoints(waypoints)}]_vars

-----------------------------------------------------------------------------
(* Properties of a single frame or timer callback *)

\* a frame callback run now flies a segment of the path
Flying ==
  /\ simulationState.isActive /\ ~simulationState.isPaused
  /\ Len(waypoints) >= 2
  /\ simulationState.currentWaypointIndex < Len(waypoints) - 1

\* distanceStep of a frame on the segment that starts at the i-th waypoint of
\* the path, and the length of that segment
StepOn(i) == SortedWaypoints(World)[i + 1].speed * simulationState.speedMultiplier
LengthOf(i) == calculateDistance(SortedWaypoints(World)[i], SortedWaypoints(World)[i + 1])

\* progress + distanceStep / segmentDistance >= 1 on the current segment,
\* with progress in units of 1 / PScale and without the division
Completing ==
  LET i == simulationState.currentWaypointIndex + 1
  IN simulationState.progress * LengthOf(i) + StepOn(i) * PScale >= PScale * LengthOf(i)

C27_EveryFrameAppends ==
  [][(AnimationFrame /\ Flying) =>
       Len(trailLog'.pushed) = Len(trailLog.pushed) + 1]_vars

\* callbacks of the interval timer per second
CallbacksPerSecond == 1000 \div TELEMETRY_UPDATE_RATE

\* C28: a callback of the interval timer in a running simulation lowers the
\* battery by drain rate per second x speedMultiplier x length of the timer
\* period in seconds, floored at 0: a second of flight at 1.0x costs 0.001,
\* however many callbacks the second holds
C28_DrainPerSecond ==
  [][(TelemetryTimer(1) /\ simulationState.isActive /\ ~simulationState.isPaused) =>
       LET perSecond == BatteryDrainRate * simulationState.speedMultiplier
       IN IF droneTelemetry.battery * CallbacksPerSecond <= perSecond
          THEN droneTelemetry'.battery = 0
          ELSE (droneTelemetry.battery - droneTelemetry'.battery) * CallbacksPerSecond
                 = perSecond]_vars

\* C29: after every frame that updates the telemetry, distanceToWaypoint is
\* segmentDistance x (1 - progress) and timeToWaypoint is distanceToWaypoint
\* divided by groundSpeed, the speed after wind; and a timer callback that
\* finds groundSpeed 0 reports an infinite estimatedTimeRemaining, not a
\* finite time computed from another speed
C29_TimesFromGroundSpeed ==
  [][/\ (AnimationFrame /\ Flying /\ ~Completing) =>
          /\ droneTelemetry'.distanceToWaypoint =
               LengthOf(simulationState.currentWaypointIndex + 1)
                 * (PScale - simulationState'.progress)
          /\ droneTelemetry'.timeToWaypoint =
               Quot(droneTelemetry'.distanceToWaypoint * DeltaTimeNum,
                    PScale * droneTelemetry'.groundSpeed * DeltaTimeDen)
     /\ (TelemetryTimer(1) /\ simulationState.isActive /\ ~simulationState.isPaused
           /\ droneTelemetry.groundSpeed = 0) =>
          simulationState'.estimatedTimeRemaining = Infinity]_vars

-----------------------------------------------------------------------------
(* Properties of the wind model, checked under SpecWind *)

\* air speeds calculateGroundSpeed is probed with, in tenths of m/s: 0, the
\* speeds flown in the model and speeds around the 2 m/s a gale of 20 m/s costs
AirSpeeds ==
  {0, 10, 2 * WIND_DANGER, 2 * WIND_DANGER + 5}
    \cup {DEFAULT_SPEED * m : m \in {MIN_SPEED_MULTIPLIER, DEFAULT_SPEED_MULTIPLIER,
                                     MAX_SPEED_MULTIPLIER}}

\* magnitude of the wind vector in m/s, for the vectors along an axis that
\* the modelled winds have
WindMagnitude == Abs(weatherEffect.windVector.x) + Abs(weatherEffect.windVector.y)

\* C30: for every air speed a >= 0 and wind of magnitude w the ground speed
\* is max(0, a - 0.1 w): never negative, never above a, equal to a when
\* w = 0 and to a - 2 m/s, floored at 0, when w = 20 m/s
C30_GroundSpeedFormula ==
  \A a \in AirSpeeds :
    LET g == calculateGroundSpeed(World, a)
        w == WindMagnitude
    IN /\ g = (IF a - w < 0 THEN 0 ELSE a - w)
       /\ g >= 0 /\ g <= a
       /\ w = 0 => g = a
       /\ w = WIND_DANGER => g = (IF a < 20 THEN 0 ELSE a - 20)   \* 2 m/s in tenths

\* a frame flown at 1.5 m/s against a gale of 20 m/s has set the ground
\* speed of the telemetry to the floor
C30_HeldByGale ==
  /\ simulationState.isActive
  /\ simulationState.progress > 0
  /\ weatherEffect.windVector.x = WIND_DANGER
  /\ droneTelemetry.speed = DEFAULT_SPEED * MIN_SPEED_MULTIPLIER
  /\ droneTelemetry.groundSpeed = 0

-----------------------------------------------------------------------------
(* Properties of flights over segments of length 0 and at speed 0 *)

\* C31: a frame that processes a segment whose endpoints coincide takes the
\* waypoint as reached: the index rises by one, progress is 0, and the frame
\* stores neither NaN nor an infinite value in the simulation state or the
\* telemetry
C31_CoincidentSegmentReached ==
  [][(AnimationFrame /\ Flying
        /\ LengthOf(simulationState.currentWaypointIndex + 1) = 0) =>
       /\ simulationState'.currentWaypointIndex
            = simulationState.currentWaypointIndex + 1
       /\ simulationState'.progress = 0
       /\ \A field \in {"latitude", "longitude", "altitude", "heading",
                        "distanceToWaypoint"} :
            droneTelemetry'[field] # NaNUnits
       /\ droneTelemetry'.timeToWaypoint # droneTelemetry.timeToWaypoint
            => droneTelemetry'.timeToWaypoint.den # 0]_vars

-----------------------------------------------------------------------------
(* Properties of whole flights *)

\* the least whole number that is at least a / b
CeilDiv(a, b) == (a + b - 1) \div b

\* a frame run now flies a segment of positive length with the distanceStep
\* that every earlier frame on the segment has had
SteadyFlight ==
  /\ Flying
  /\ LengthOf(simulationState.currentWaypointIndex + 1) > 0
  /\ StepOn(simulationState.currentWaypointIndex + 1) > 0
  /\ segmentLog.steady
  /\ segmentLog.ticks > 0 =>
       segmentLog.distanceStep = StepOn(simulationState.currentWaypointIndex + 1)

\* C32: with the multiplier and the waypoint speed constant, a segment of
\* length D > 0 flown with step s per frame is completed on exactly the
\* ceil(D / s)-th frame spent on it, and on a path of two waypoints that same
\* frame ends the run with the mission-complete signal
C32_SegmentTakesCeilTicks ==
  [][(AnimationFrame /\ SteadyFlight) =>
       LET i == simulationState.currentWaypointIndex + 1
           last == segmentLog.ticks + 1 = CeilDiv(LengthOf(i), StepOn(i))
       IN /\ simulationState'.currentWaypointIndex = simulationState.currentWaypointIndex + 1
               <=> last
          /\ (last /\ Len(waypoints) = 2) =>
               /\ ~simulationState'.isActive
               /\ lastAlert' = MissionCompleted]_vars


\* C33: at most one frame callback is queued with the host at any time,
\* whatever the order of start, pause, resume, stop, reset, step-mode pauses
\* and the delivery of frames
C33_OneFrameCallbackQueued == Len(frameQueue) <= 1


\* C34: the interval timer of the telemetry is registered exactly while the
\* simulation is running: telemetryUpdateInterval holds a handle iff isActive
\* and not isPaused, and the host has no other timer of the simulation
C34_TimerIffRunning ==
  /\ telemetryUpdateInterval # 0
       <=> (simulationState.isActive /\ ~simulationState.isPaused)
  /\ intervalTimers \subseteq {telemetryUpdateInterval}
  /\ telemetryUpdateInterval # 0 => intervalTimers = {telemetryUpdateInterval}

\* step mode has paused the run from inside a frame: the frame callback that
\* did it is queued again, the timer is gone
C34_TimerClearedByAutoPause ==
  /\ simulationState.isActive /\ simulationState.isPaused
  /\ simulationState.stepMode
  /\ frameQueue # <<>>
  /\ intervalTimers = {}


\* C35: a started simulation that is left alone (no edit of the path, no
\* step mode, no pause, stop or reset, waypoint speeds above 0) ends idle
\* with the mission-complete signal once the host has delivered enough
\* frames; it begins on segment 0, goes from each segment to the next, and
\* ends only on the last waypoint
C35_LeftAloneCompletes ==
  /\ [](simulationState.isActive =>
          <>(~simulationState.isActive /\ missionCompleteAlerts > 0))
  /\ [][/\ StartSimulation /\ simulationState'.isActive =>
             simulationState'.currentWaypointIndex = 0
        /\ (simulationState.isActive /\ simulationState'.isActive
              /\ simulationState'.currentWaypointIndex
                   # simulationState.currentWaypointIndex) =>
             simulationState'.currentWaypointIndex
               = simulationState.currentWaypointIndex + 1
        /\ (simulationState.isActive /\ ~simulationState'.isActive) =>
             /\ simulationState.currentWaypointIndex = Len(waypoints) - 1
             /\ lastAlert' = MissionCompleted]_vars

\* a flight over two segments has ended with the mission-complete signal
C35_TwoSegmentsFlown ==
  /\ ~simulationState.isActive
  /\ missionCompleteAlerts = 1
  /\ Len(waypoints) = 3
  /\ simulationState.currentWaypointIndex = 2
  /\ simulationState.speedMultiplier = MIN_SPEED_MULTIPLIER


C37_ElapsedCountsRunningTime ==
  [][/\ (ClockTick /\ simulationState.isActive /\ simulationState.isPaused) =>
          elapsedTime([now |-> now', simulationState |-> simulationState'])
            = elapsedTime(World)
     /\ ResetSimulation =>
          elapsedTime([now |-> now', simulationState |-> simulationState']) = 0]_vars


\* the state of the scheduler that the flags of a simulation state stand for
Phase(state) ==
  IF ~state.isActive THEN "Idle" ELSE IF state.isPaused THEN "Paused" ELSE "Running"

\* C38: isPaused implies isActive in every state, and the scheduler changes
\* between Idle, Running and Paused only from Idle to Running by a start,
\* between Running and Paused by the pause button or, towards Paused, by a
\* frame in step mode, from Running or Paused to Idle by a stop and from
\* Running to Idle by the frame that completes the mission
C38_IdleRunningPaused ==
  /\ [](simulationState.isPaused => simulationState.isActive)
  /\ [][Phase(simulationState') # Phase(simulationState) =>
          LET from == Phase(simulationState)
              to == Phase(simulationState')
          IN \/ from = "Idle" /\ to = "Running" /\ StartSimulation
             \/ from = "Running" /\ to = "Paused"
                  /\ (ToggleSimulationPause \/ (AnimationFrame /\ simulationState.stepMode))
             \/ from = "Paused" /\ to = "Running" /\ ToggleSimulationPause
             \/ from = "Paused" /\ to = "Idle" /\ StopSimulation
             \/ from = "Running" /\ to = "Idle"
                  /\ (StopSimulation \/ (AnimationFrame /\ lastAlert' = MissionCompleted))]_vars

\* a run of three waypoints in step mode has ended with the mission-complete
\* signal
C38_StepModeRunCompleted ==
  /\ ~simulationState.isActive
  /\ lastAlert = MissionCompleted
  /\ simulationState.stepMode
  /\ Len(waypoints) = 3


-----------------------------------------------------------------------------
(* The path flown and the path drawn *)

\* C39: a simulation started on a mission of two or more waypoints flies the
\* waypoints in the order of the flight path drawn on the map for it, the
\* home point first and the others in the planner's order, and its
\* totalDistance is the length of that path
C39_FliesTheDrawnPath ==
  [][(StartSimulation /\ Len(waypoints) >= 2) =>
       /\ SortedWaypoints(World) = FlightPath(waypoints)
       /\ simulationState'.totalDistance = SumSegments(FlightPath(waypoints), 1)
       /\ droneTelemetry'.longitude = FlightPath(waypoints)[1].lng * PScale]_vars
====
